---- MODULE Spec2Model ----
(***************************************************************************)
(* Model of economy2app.py: the World Bank fetcher                         *)
(* (fetch_worldbank_data), the rule-based interpreter (interpret_economy)  *)
(* and the Streamlit script that calls both on every user interaction.     *)
(*                                                                         *)
(* Floats are fixed-point numbers in hundredths (650 is 6.50).  Strings    *)
(* that the code converts (the 'date' of an entry, the '.2f' rendering of  *)
(* a value) are sequences of one-character strings.                        *)
(***************************************************************************)
EXTENDS Integers, Sequences, FiniteSets, TLC

VARIABLES pc, country, gdp_df, inf_df, reqs, call, ui, interpretation

vars == <<pc, country, gdp_df, inf_df, reqs, call, ui, interpretation>>

(***************************************************************************)
(* Bounds of the model.                                                    *)
(***************************************************************************)
\* longest record list of a response envelope (single fetch calls)
MaxRecords == 3
\* longest record list of a response envelope in a whole script run
MaxShellRecords == 2
\* longest series handed to interpret_economy when it is checked on its own
MaxRows == 3

SeqsUpTo(S, n) == UNION {[1..k -> S] : k \in 0..n}

(***************************************************************************)
(* The static country table (lines 65-77) and the two indicators.          *)
(***************************************************************************)
countries ==
    [c \in {"India", "United States", "United Kingdom", "China", "Japan",
            "Germany", "France", "Canada", "Australia", "Brazil", "Russia"} |->
        CASE c = "India" -> "IN"
          [] c = "United States" -> "US"
          [] c = "United Kingdom" -> "GB"
          [] c = "China" -> "CN"
          [] c = "Japan" -> "JP"
          [] c = "Germany" -> "DE"
          [] c = "France" -> "FR"
          [] c = "Canada" -> "CA"
          [] c = "Australia" -> "AU"
          [] c = "Brazil" -> "BR"
          [] c = "Russia" -> "RU"]

GDP_INDICATOR == "NY.GDP.MKTP.CD"

INF_INDICATOR == "FP.CPI.TOTL.ZG"

(***************************************************************************)
(* Values of the program.                                                  *)
(***************************************************************************)
\* a pandas DataFrame of {year, value} rows, Python's None, or a name that
\* has not been assigned yet
Unset == [st |-> "unset", rows |-> <<>>]

None == [st |-> "none", rows |-> <<>>]

DataFrame(rows) == [st |-> "df", rows |-> rows]

\* how a call ended
Pending == [tag |-> "pending", exc |-> "", val |-> Unset]

Return(v) == [tag |-> "return", exc |-> "", val |-> v]

Raise(e) == [tag |-> "raise", exc |-> e, val |-> Unset]

(***************************************************************************)
(* What requests.get(url) and response.json() can produce.                 *)
(*   transport : FALSE when requests.get itself raises                     *)
(*   body      : "json" or "not_json"                                      *)
(*   top       : the type of the decoded document ("array", "object")      *)
(*   n         : the length of the top-level array                         *)
(*   second    : the type of its second element ("array", "null")          *)
(*   data      : the entries of the second element                         *)
(* An entry is [date, value]; a value is JSON null, an integer literal     *)
(* (n) or a decimal literal (n hundredths).                                *)
(***************************************************************************)
TransportError ==
    [transport |-> FALSE, body |-> "none", top |-> "none", n |-> 0,
     second |-> "none", data |-> <<>>]

NotJson ==
    [transport |-> TRUE, body |-> "not_json", top |-> "none", n |-> 0,
     second |-> "none", data |-> <<>>]

JsonObject ==
    [transport |-> TRUE, body |-> "json", top |-> "object", n |-> 0,
     second |-> "none", data |-> <<>>]

JsonArray(k) ==
    [transport |-> TRUE, body |-> "json", top |-> "array", n |-> k,
     second |-> "none", data |-> <<>>]

NullData ==
    [transport |-> TRUE, body |-> "json", top |-> "array", n |-> 2,
     second |-> "null", data |-> <<>>]

Envelope(d) ==
    [transport |-> TRUE, body |-> "json", top |-> "array", n |-> 2,
     second |-> "array", data |-> d]

JNull == [k |-> "null", n |-> 0]

JInt(i) == [k |-> "int", n |-> i]

JDec(h) == [k |-> "dec", n |-> h]

Entries(D, V) == [date : D, value : V]

Malformed == {TransportError, NotJson, JsonObject, JsonArray(0), JsonArray(1), NullData}

\* the responses a single fetch call is checked on
Dates == {<<"2">>, <<"1", "0">>, <<"x">>}

Values == {JNull, JInt(2), JDec(150), JDec(650)}

Responses ==
    Malformed \cup {Envelope(d) : d \in SeqsUpTo(Entries(Dates, Values), MaxRecords)}

\* the responses a whole script run is checked on
ShellDates == {<<"2">>, <<"1", "0">>}

ShellValues == {JNull, JInt(2), JDec(650)}

ShellResponses ==
    Malformed \cup
    {Envelope(d) : d \in SeqsUpTo(Entries(ShellDates, ShellValues), MaxShellRecords)}

(***************************************************************************)
(* Conversions of lines 25 and 48-52.                                      *)
(***************************************************************************)
Digits == <<"0", "1", "2", "3", "4", "5", "6", "7", "8", "9">>

IsDigit(c) == \E i \in DOMAIN Digits : Digits[i] = c

DigitVal(c) == (CHOOSE i \in DOMAIN Digits : Digits[i] = c) - 1

\* int(entry["date"]) succeeds on a non-empty string of decimal digits
py_int_ok(s) == Len(s) > 0 /\ \A i \in DOMAIN s : IsDigit(s[i])

RECURSIVE py_int(_)
py_int(s) ==
    IF Len(s) = 1 THEN DigitVal(s[1])
    ELSE 10 * py_int(SubSeq(s, 1, Len(s) - 1)) + DigitVal(s[Len(s)])

\* float(entry["value"]) of a JSON number, in hundredths
py_float(v) == IF v.k = "int" THEN 100 * v.n ELSE v.n

RECURSIVE str_nat(_)
str_nat(n) ==
    IF n < 10 THEN <<Digits[n + 1]>>
    ELSE Append(str_nat(n \div 10), Digits[(n % 10) + 1])

\* f"{x:.2f}" of a value held in hundredths
format_2f(x) ==
    LET a == IF x < 0 THEN -x ELSE x
    IN  (IF x < 0 THEN <<"-">> ELSE <<>>) \o str_nat(a \div 100)
        \o <<".", Digits[((a % 100) \div 10) + 1], Digits[(a % 10) + 1]>>

(***************************************************************************)
(* fetch_worldbank_data, lines 10-28.                                      *)
(***************************************************************************)
\* line 14: the URL is determined by the country code and the indicator
Url(country_code, indicator) == [code |-> country_code, indicator |-> indicator]

\* an except clause that swallows decoding errors only
response_json_1_decode_only(resp) ==
    IF resp.body # "json" THEN "JSONDecodeError" ELSE ""

\* lines 17-20: data = response.json()[1] under a bare except; "" when the
\* expression evaluates, else the exception the except clause swallows
response_json_1(resp) ==
    IF resp.body # "json" THEN "JSONDecodeError"
    ELSE IF resp.top # "array" THEN "KeyError"
    ELSE IF resp.n < 2 THEN "IndexError"
    ELSE ""

\* lines 22-25: the loop that keeps the entries whose value is not None
RECURSIVE records_loop(_, _)
records_loop(data, records) ==
    IF data = <<>> THEN [exc |-> "", records |-> records]
    ELSE LET entry == Head(data)
         IN  IF entry.value.k = "null" THEN records_loop(Tail(data), records)
             ELSE IF ~py_int_ok(entry.date)
                  THEN [exc |-> "ValueError", records |-> records]
             ELSE records_loop(Tail(data),
                      Append(records, [year |-> py_int(entry.date),
                                       value |-> py_float(entry.value)]))

RemoveAt(s, i) == SubSeq(s, 1, i - 1) \o SubSeq(s, i + 1, Len(s))

\* df.sort_values("year") of a frame that has a year column: the default
\* sort is not stable, so rows of equal year may come out in any order
RECURSIVE sort_by_year(_)
sort_by_year(rows) ==
    IF rows = <<>> THEN {<<>>}
    ELSE UNION {{<<rows[i]>> \o t : t \in sort_by_year(RemoveAt(rows, i))} :
                i \in {j \in DOMAIN rows :
                          \A k \in DOMAIN rows : rows[j].year <= rows[k].year}}

\* the frame returned as it was built, without the sort of line 28
sort_values_skipped(records) ==
    IF records = <<>> THEN {Raise("KeyError")}
    ELSE {Return(DataFrame(records))}

\* lines 27-28: pd.DataFrame(records).sort_values("year"); a frame built
\* from an empty list has no columns, and sorting it by "year" raises
sort_values(records) ==
    IF records = <<>> THEN {Raise("KeyError")}
    ELSE {Return(DataFrame(rows)) : rows \in sort_by_year(records)}

\* the outcomes of one call: the requests it sent and how it ended
fetch_worldbank_data(country_code, indicator, resp) ==
    LET sent == <<Url(country_code, indicator)>>
        ends ==
            IF ~resp.transport THEN {Raise("ConnectionError")}
            ELSE IF response_json_1(resp) # "" THEN {Return(None)}
            ELSE IF resp.second # "array" THEN {Raise("TypeError")}
            ELSE LET loop == records_loop(resp.data, <<>>)
                 IN  IF loop.exc # "" THEN {Raise(loop.exc)}
                     ELSE sort_values(loop.records)
    IN  {[sent |-> sent, out |-> o] : o \in ends}

NoCall == [indicator |-> "", resp |-> TransportError, out |-> Pending]

(***************************************************************************)
(* SpecFetch: fetch_worldbank_data called once on any response.            *)
(***************************************************************************)
FetchInit ==
    /\ pc = "fetch_call"
    /\ country \in {"India", "Japan"}
    /\ \E ind \in {GDP_INDICATOR, INF_INDICATOR}, resp \in Responses :
           call = [indicator |-> ind, resp |-> resp, out |-> Pending]
    /\ gdp_df = Unset
    /\ inf_df = Unset
    /\ reqs = <<>>
    /\ ui = <<>>
    /\ interpretation = [done |-> FALSE, stmts |-> <<>>]

FetchCall ==
    /\ pc = "fetch_call"
    /\ \E r \in fetch_worldbank_data(countries[country], call.indicator, call.resp) :
           /\ call' = [call EXCEPT !.out = r.out]
           /\ reqs' = reqs \o r.sent
    /\ pc' = "fetch_done"
    /\ UNCHANGED <<country, gdp_df, inf_df, ui, interpretation>>

FetchNext == FetchCall

SpecFetch == FetchInit /\ [][FetchNext]_vars

(***************************************************************************)
(* interpret_economy, lines 31-54.  The returned string is a sequence of   *)
(* lines; a line is its topic, its wording and the number it quotes.       *)
(***************************************************************************)
Statement(topic, text, num) == [topic |-> topic, text |-> text, num |-> num]

\* the comparison of line 39 with >= for >
gdp_trend_ge(df) ==
    IF df.st # "none" /\ Len(df.rows) > 1
    THEN IF df.rows[Len(df.rows)].value >= df.rows[1].value
         THEN <<Statement("gdp", "GDP is growing overall", <<>>)>>
         ELSE <<Statement("gdp", "GDP is declining", <<>>)>>
    ELSE <<>>

\* lines 38-42
gdp_trend(df) ==
    IF df.st # "none" /\ Len(df.rows) > 1
    THEN IF df.rows[Len(df.rows)].value > df.rows[1].value
         THEN <<Statement("gdp", "GDP is growing overall", <<>>)>>
         ELSE <<Statement("gdp", "GDP is declining", <<>>)>>
    ELSE <<>>

\* the comparison of line 47 with >= for >
inflation_trend_ge(df) ==
    IF df.st # "none" /\ Len(df.rows) > 1
    THEN LET latest_inf == df.rows[Len(df.rows)].value
         IN  IF latest_inf >= 100 * 6
             THEN <<Statement("inflation", "Inflation is high", format_2f(latest_inf))>>
             ELSE IF latest_inf < 100 * 2
             THEN <<Statement("inflation", "Inflation is very low", format_2f(latest_inf))>>
             ELSE <<Statement("inflation", "Inflation is stable", format_2f(latest_inf))>>
    ELSE <<>>

\* lines 45-52
inflation_trend(df) ==
    IF df.st # "none" /\ Len(df.rows) > 1
    THEN LET latest_inf == df.rows[Len(df.rows)].value
         IN  IF latest_inf > 100 * 6
             THEN <<Statement("inflation", "Inflation is high", format_2f(latest_inf))>>
             ELSE IF latest_inf < 100 * 2
             THEN <<Statement("inflation", "Inflation is very low", format_2f(latest_inf))>>
             ELSE <<Statement("inflation", "Inflation is stable", format_2f(latest_inf))>>
    ELSE <<>>

\* the two blocks of lines 37-52 in the other order
interpret_economy_inflation_first(gdp, inf) == inflation_trend(inf) \o gdp_trend(gdp)

interpret_economy(gdp, inf) == gdp_trend(gdp) \o inflation_trend(inf)

(***************************************************************************)
(* SpecInterp: interpret_economy called once on any pair of inputs.        *)
(***************************************************************************)
Series(V, n) ==
    UNION {{[i \in 1..k |-> [year |-> i, value |-> vs[i]]] : vs \in [1..k -> V]} :
                       k \in 0..n}

GdpInputs == {None} \cup {DataFrame(r) : r \in Series({100, 200}, MaxRows)}

InfInputs == {None} \cup {DataFrame(r) : r \in Series({150, 200, 600, 650}, MaxRows)}

InterpInit ==
    /\ pc = "interp_call"
    /\ country = "India"
    /\ gdp_df \in GdpInputs
    /\ inf_df \in InfInputs
    /\ call = NoCall
    /\ reqs = <<>>
    /\ ui = <<>>
    /\ interpretation = [done |-> FALSE, stmts |-> <<>>]

InterpCall ==
    /\ pc = "interp_call"
    /\ interpretation' = [done |-> TRUE, stmts |-> interpret_economy(gdp_df, inf_df)]
    /\ pc' = "interp_done"
    /\ UNCHANGED <<country, gdp_df, inf_df, reqs, call, ui>>

InterpNext == InterpCall

SpecInterp == InterpInit /\ [][InterpNext]_vars

(***************************************************************************)
(* Spec: the script, lines 61-115, run once per user interaction.          *)
(***************************************************************************)
Init ==
    /\ pc = "idle"
    /\ country = "India"
    /\ gdp_df = Unset
    /\ inf_df = Unset
    /\ reqs = <<>>
    /\ call = NoCall
    /\ ui = <<>>
    /\ interpretation = [done |-> FALSE, stmts |-> <<>>]

\* lines 61-82: a (re)run of the script starts with the selected country
SelectCountry(c) ==
    /\ pc \in {"idle", "done", "crashed"}
    /\ country' = c
    /\ ui' = <<"title", "write:intro", "selectbox", "subheader">>
    /\ gdp_df' = Unset
    /\ inf_df' = Unset
    /\ reqs' = <<>>
    /\ call' = NoCall
    /\ interpretation' = [done |-> FALSE, stmts |-> <<>>]
    /\ pc' = "fetch_gdp"

\* line 85; an exception that escapes ends the run with Streamlit's traceback
FetchGdp ==
    /\ pc = "fetch_gdp"
    /\ \E resp \in ShellResponses :
       \E r \in fetch_worldbank_data(countries[country], GDP_INDICATOR, resp) :
           /\ call' = [indicator |-> GDP_INDICATOR, resp |-> resp, out |-> r.out]
           /\ reqs' = reqs \o r.sent
           /\ IF r.out.tag = "raise"
              THEN /\ pc' = "crashed"
                   /\ ui' = Append(ui, "exception")
                   /\ UNCHANGED gdp_df
              ELSE /\ pc' = "fetch_inf"
                   /\ gdp_df' = r.out.val
                   /\ UNCHANGED ui
    /\ UNCHANGED <<country, inf_df, interpretation>>

\* line 88
FetchInflation ==
    /\ pc = "fetch_inf"
    /\ \E resp \in ShellResponses :
       \E r \in fetch_worldbank_data(countries[country], INF_INDICATOR, resp) :
           /\ call' = [indicator |-> INF_INDICATOR, resp |-> resp, out |-> r.out]
           /\ reqs' = reqs \o r.sent
           /\ IF r.out.tag = "raise"
              THEN /\ pc' = "crashed"
                   /\ ui' = Append(ui, "exception")
                   /\ UNCHANGED inf_df
              ELSE /\ pc' = "render"
                   /\ inf_df' = r.out.val
                   /\ UNCHANGED ui
    /\ UNCHANGED <<country, gdp_df, interpretation>>

\* lines 90-115
Render ==
    /\ pc = "render"
    /\ IF gdp_df.st # "none" /\ inf_df.st # "none"
       THEN /\ ui' = ui \o <<"write:gdp", "chart:gdp", "write:inflation",
                             "chart:inflation", "write:gdp_table", "dataframe:gdp",
                             "write:inflation_table", "dataframe:inflation",
                             "write:interpretation", "info">>
            /\ interpretation' =
                   [done |-> TRUE, stmts |-> interpret_economy(gdp_df, inf_df)]
       ELSE /\ ui' = Append(ui, "error")
            /\ UNCHANGED interpretation
    /\ pc' = "done"
    /\ UNCHANGED <<country, gdp_df, inf_df, reqs, call>>

Next ==
    \/ \E c \in DOMAIN countries : SelectCountry(c)
    \/ FetchGdp
    \/ FetchInflation
    \/ Render

Spec == Init /\ [][Next]_vars

(***************************************************************************)
(* Properties of fetch_worldbank_data (SpecFetch).                         *)
(***************************************************************************)
FetchDone == pc = "fetch_done"

\* a two-element envelope whose second element is a list of entries with a
\* year string and a nullable number
WellFormed(resp) ==
    /\ resp.transport
    /\ resp.body = "json" /\ resp.top = "array" /\ resp.n = 2
    /\ resp.second = "array"
    /\ \A i \in DOMAIN resp.data : py_int_ok(resp.data[i].date)

NonNull(data) == {i \in DOMAIN data : data[i].value # JNull}

Count(s, x) == Cardinality({i \in DOMAIN s : s[i] = x})

SameRows(s, t) ==
    /\ Len(s) = Len(t)
    /\ \A i \in DOMAIN s : Count(s, s[i]) = Count(t, s[i])

\* the rows the entries of an envelope stand for, one per non-null entry
RowsOf(data) ==
    LET keep(e) == e.value # JNull
        kept == SelectSeq(data, keep)
    IN  [i \in DOMAIN kept |->
            [year |-> py_int(kept[i].date),
             value |-> IF kept[i].value.k = "int" THEN kept[i].value.n * 100
                       ELSE kept[i].value.n]]

SortedByYear(rows) ==
    \A i, j \in DOMAIN rows : i < j => rows[i].year <= rows[j].year

\* a failure of transport, of decoding or of the envelope's shape
Failure(resp) ==
    \/ ~resp.transport
    \/ resp.body # "json"
    \/ resp.top # "array" \/ resp.n < 2
    \/ resp.second # "array"
    \/ \E i \in NonNull(resp.data) : ~py_int_ok(resp.data[i].date)

\* C1: a call of fetch_worldbank_data never ends by raising; every failure
\* of transport, decoding or envelope shape ends with the None sentinel.
C1_NeverRaises ==
    FetchDone =>
        /\ call.out.tag = "return"
        /\ Failure(call.resp) => call.out = Return(None)

\* C2: a completed call yields a well-formed series or None, and a
\* well-formed envelope without any non-null value yields the empty series.
C2_SeriesOrUnavailable ==
    FetchDone =>
        /\ call.out.tag = "return" => call.out.val.st \in {"df", "none"}
        /\ (WellFormed(call.resp) /\ NonNull(call.resp.data) = {})
               => call.out = Return(DataFrame(<<>>))

\* C3: on a well-formed envelope with K non-null entries the call returns
\* exactly K rows, the converted non-null entries and nothing else.
C3_ExactlyTheNonNullRecords ==
    (FetchDone /\ WellFormed(call.resp)) =>
        /\ call.out.tag = "return"
        /\ call.out.val.st = "df"
        /\ Len(call.out.val.rows) = Cardinality(NonNull(call.resp.data))
        /\ SameRows(call.out.val.rows, RowsOf(call.resp.data))

\* C4: a returned series is sorted non-decreasing by year, whatever the
\* order of the entries, and is a permutation of the filtered, converted
\* entries.
C4_SortedPermutation ==
    (FetchDone /\ call.out.tag = "return" /\ call.out.val.st = "df") =>
        /\ SortedByYear(call.out.val.rows)
        /\ SameRows(call.out.val.rows, RowsOf(call.resp.data))

C4_Witness ==
    /\ FetchDone
    /\ call.out.tag = "return" /\ call.out.val.st = "df"
    /\ Len(call.resp.data) = 3
    /\ Len(call.out.val.rows) = 2
    /\ call.resp.data[1].date = <<"1", "0">> /\ call.resp.data[1].value # JNull
    /\ call.resp.data[3].date = <<"2">> /\ call.resp.data[3].value # JNull
    /\ call.out.val.rows[1].year = 2 /\ call.out.val.rows[2].year = 10

SingleElementArray(resp) ==
    resp.transport /\ resp.body = "json" /\ resp.top = "array" /\ resp.n = 1

NonJsonBody(resp) == resp.transport /\ resp.body = "not_json"

\* C5: a single-element array or a body that is not JSON yields None.
C5_MalformedIsUnavailable ==
    (FetchDone /\ (SingleElementArray(call.resp) \/ NonJsonBody(call.resp)))
        => call.out = Return(None)

C5_Witness ==
    FetchDone /\ SingleElementArray(call.resp) /\ call.out = Return(None)

(***************************************************************************)
(* Properties of interpret_economy (SpecInterp).                           *)
(***************************************************************************)
InterpDone == pc = "interp_done" /\ interpretation.done

About(topic) ==
    LET is(st) == st.topic = topic
    IN  SelectSeq(interpretation.stmts, is)

Applicable(df) == df.st = "df" /\ Len(df.rows) >= 2

\* C6: a GDP statement is emitted exactly when the GDP input is available
\* with at least 2 records; it says growing exactly when the last value is
\* strictly greater than the first and declining otherwise, equality
\* included, whatever the records in between.
C6_GdpRule ==
    InterpDone =>
        LET g == About("gdp")
            n == Len(gdp_df.rows)
        IN  /\ (g # <<>>) <=> Applicable(gdp_df)
            /\ Applicable(gdp_df) =>
                   /\ Len(g) = 1
                   /\ g[1].text = IF gdp_df.rows[n].value > gdp_df.rows[1].value
                                  THEN "GDP is growing overall"
                                  ELSE "GDP is declining"

C6_Witness ==
    /\ InterpDone
    /\ Len(gdp_df.rows) = 3
    /\ gdp_df.rows[1].value = 200
    /\ gdp_df.rows[2].value = 100
    /\ gdp_df.rows[3].value = 200
    /\ inf_df = None
    /\ interpretation.stmts = <<Statement("gdp", "GDP is declining", <<>>)>>

\* C7: an inflation statement is emitted exactly when the inflation input
\* is available with at least 2 records; it classifies the last value v
\* alone: high when v > 6, very low when v < 2, stable when 2 <= v <= 6,
\* and quotes v with two decimals.
C7_InflationRule ==
    InterpDone =>
        LET s == About("inflation")
            n == Len(inf_df.rows)
            v == inf_df.rows[n].value
        IN  /\ (s # <<>>) <=> Applicable(inf_df)
            /\ Applicable(inf_df) =>
                   /\ Len(s) = 1
                   /\ v > 600 <=> s[1].text = "Inflation is high"
                   /\ v < 200 <=> s[1].text = "Inflation is very low"
                   /\ (200 <= v /\ v <= 600) <=> s[1].text = "Inflation is stable"
                   /\ v = 650 => s[1].num = <<"6", ".", "5", "0">>
                   /\ v = 150 => s[1].num = <<"1", ".", "5", "0">>
                   /\ v = 200 => s[1].num = <<"2", ".", "0", "0">>
                   /\ v = 600 => s[1].num = <<"6", ".", "0", "0">>

C7_Witness ==
    /\ InterpDone
    /\ gdp_df = None
    /\ Len(inf_df.rows) = 2
    /\ inf_df.rows[1].value = 650
    /\ inf_df.rows[2].value = 600
    /\ interpretation.stmts =
           <<Statement("inflation", "Inflation is stable", <<"6", ".", "0", "0">>)>>

OfTopic(stmts, topic) ==
    LET is(st) == st.topic = topic
    IN  SelectSeq(stmts, is)

\* C8: the output holds at most two statements, the GDP statement before
\* the inflation statement; an input that is unavailable or shorter than 2
\* records contributes nothing, so two unavailable inputs give the empty
\* output; and each statement is the same whatever the other input is.
C8_OrderAndIndependence ==
    InterpDone =>
        LET s == interpretation.stmts
        IN  /\ Len(s) <= 2
            /\ Len(s) = Len(About("gdp")) + Len(About("inflation"))
            /\ Len(About("gdp")) <= 1 /\ Len(About("inflation")) <= 1
            /\ \A i, j \in DOMAIN s :
                   (s[i].topic = "gdp" /\ s[j].topic = "inflation") => i < j
            /\ ~Applicable(gdp_df) => About("gdp") = <<>>
            /\ ~Applicable(inf_df) => About("inflation") = <<>>
            /\ (gdp_df = None /\ inf_df = None) => s = <<>>
            /\ \A other \in InfInputs :
                   OfTopic(interpret_economy(gdp_df, other), "gdp") = About("gdp")
            /\ \A other \in GdpInputs :
                   OfTopic(interpret_economy(other, inf_df), "inflation")
                       = About("inflation")

C8_Witness ==
    /\ InterpDone
    /\ Len(interpretation.stmts) = 2
    /\ interpretation.stmts[1] = Statement("gdp", "GDP is declining", <<>>)
    /\ interpretation.stmts[2] =
           Statement("inflation", "Inflation is very low", <<"1", ".", "5", "0">>)

(***************************************************************************)
(* Properties of a script run (Spec).                                      *)
(***************************************************************************)
RunEnded == pc \in {"done", "crashed"}

Shown(w) == Cardinality({i \in DOMAIN ui : ui[i] = w})

DataWidgets ==
    {"chart:gdp", "chart:inflation", "dataframe:gdp", "dataframe:inflation", "info"}

\* C9: in every interaction, when either fetch yields None the shell shows
\* exactly one generic error message and no chart, table or interpretation,
\* and when both yield a series it shows both charts, both tables and the
\* interpretation and no error message.
C9_AllOrNothing ==
    RunEnded =>
        /\ (gdp_df = None \/ inf_df = None) =>
               /\ Shown("error") = 1
               /\ \A w \in DataWidgets : Shown(w) = 0
               /\ ~interpretation.done
        /\ (gdp_df.st = "df" /\ inf_df.st = "df") =>
               /\ Shown("error") = 0
               /\ \A w \in DataWidgets : Shown(w) = 1
               /\ interpretation.done

\* C10: every interaction issues exactly two requests, the GDP request
\* first and the inflation request second, whatever the GDP fetch gave.
C10_TwoRequests ==
    RunEnded =>
        reqs = <<Url(countries[country], GDP_INDICATOR),
                 Url(countries[country], INF_INDICATOR)>>

====
